---- MODULE Spec2Model ----
(***************************************************************************)
(* A model of src/trader.py: the Trader of a market-making round.  The     *)
(* Trader keeps, per product, a position limit and a sliding window of     *)
(* the last 10 "position was at the limit" observations; run() restores    *)
(* both from the traderData string of the previous cycle, quotes every     *)
(* product whose book has two sides, and serializes both again.            *)
(***************************************************************************)
EXTENDS Integers, Sequences, FiniteSets, TLC

\* ------------------------------------------------------------------------
\* Program constants.

\* Trader.__init__: self.default_position_limit = 20
default_position_limit == 20

\* deque(maxlen=10), deque(window_data, maxlen=10), len(window) == 10
maxlen == 10

\* soft_liquidate: sum(window) >= 5
soft_threshold == 5

\* ------------------------------------------------------------------------
\* Python helpers.

Abs(x) == IF x < 0 THEN -x ELSE x

Min(a, b) == IF a <= b THEN a ELSE b

Max(a, b) == IF a >= b THEN a ELSE b

\* round(n / 2) for an integer n: Python 3 rounds a half to the even
\* neighbour (round(10.5) = 10, round(11.5) = 12).
RoundHalf(n) ==
    IF n % 2 = 0 THEN n \div 2
    ELSE LET lo == (n - 1) \div 2
         IN  IF lo % 2 = 0 THEN lo ELSE lo + 1

\* sorted(d.items()) / sorted(d.items(), reverse=True) for a dict d from
\* price to volume: the (price, volume) pairs by ascending (descending)
\* price.  A dict is a function whose DOMAIN is its key set.
RECURSIVE SortedItems(_, _, _)
SortedItems(d, keys, reverse) ==
    IF keys = {} THEN <<>>
    ELSE LET k == IF reverse
                  THEN CHOOSE x \in keys : \A y \in keys : y <= x
                  ELSE CHOOSE x \in keys : \A y \in keys : x <= y
         IN  <<  <<k, d[k]>>  >> \o SortedItems(d, keys \ {k}, reverse)

\* max(items, key=lambda tup: tup[1]): the first item of the largest
\* volume.
MaxByVolume(items) ==
    LET i == CHOOSE j \in 1..Len(items) :
                 /\ \A k \in 1..Len(items) : items[k][2] <= items[j][2]
                 /\ \A k \in 1..(j - 1) : items[k][2] < items[j][2]
    IN  items[i]

\* min(items, key=lambda tup: tup[1]): the first item of the smallest
\* volume (sell volumes are negative: the largest size offered).
MinByVolume(items) ==
    LET i == CHOOSE j \in 1..Len(items) :
                 /\ \A k \in 1..Len(items) : items[k][2] >= items[j][2]
                 /\ \A k \in 1..(j - 1) : items[k][2] > items[j][2]
    IN  items[i]

\* ------------------------------------------------------------------------
\* Python values.  A value json.loads returns, and so any value that a
\* window or self.position_limits can hold after the restore, is a record
\* tagged by its type:
\*   None   [t |-> "null"]              True / False  [t |-> "true" / "false"]
\*   int    [t |-> "number", v |-> n]   str           [t |-> "string", v |-> s]
\*   list   [t |-> "array", v |-> <<items>>]
\*   dict   [t |-> "object", v |-> d]
\* A dict d is the sequence of its <<key, value>> pairs in insertion order,
\* the keys distinct (the order in which Python iterates it and json.dumps
\* writes it).  Numbers are integers.

JNull == [t |-> "null"]

JNumber(n) == [t |-> "number", v |-> n]

JString(x) == [t |-> "string", v |-> x]

JArray(items) == [t |-> "array", v |-> items]

JObject(members) == [t |-> "object", v |-> members]

JsonBool(b) == IF b THEN [t |-> "true"] ELSE [t |-> "false"]

\* key in d, d[key] and d[key] = x for a dict d.
DictHas(d, key) == \E i \in 1..Len(d) : d[i][1] = key

DictGet(d, key) == d[CHOOSE i \in 1..Len(d) : d[i][1] = key][2]

DictSet(d, key, x) ==
    IF DictHas(d, key)
    THEN [i \in 1..Len(d) |-> IF d[i][1] = key THEN <<key, x>> ELSE d[i]]
    ELSE Append(d, <<key, x>>)

\* key in s for two strings: s holds key as a substring.
Substring(key, s) ==
    \E i \in 0..(Len(s) - Len(key)) : SubSeq(s, i + 1, i + Len(key)) = key

\* key in x raises TypeError when x is None, a bool or an int.
InRaises(x) == x.t \in {"null", "true", "false", "number"}

\* key in x for a string key, where it does not raise: a key of a dict, an
\* item of a list, a substring of a string.
In(key, x) ==
    CASE x.t = "object" -> DictHas(x.v, key)
      [] x.t = "array"  -> \E i \in 1..Len(x.v) : x.v[i] = JString(key)
      [] x.t = "string" -> Substring(key, x.v)

\* iter(x) raises TypeError when x is None, a bool or an int.
Iterable(x) == x.t \in {"string", "array", "object"}

\* The items iterating x yields: the characters of a string, the items of
\* a list, the keys of a dict.
Iter(x) ==
    CASE x.t = "array"  -> x.v
      [] x.t = "string" -> [i \in 1..Len(x.v) |-> JString(SubSeq(x.v, i, i))]
      [] x.t = "object" -> [i \in 1..Len(x.v) |-> JString(x.v[i][1])]

\* bool(x)
Truthy(x) ==
    CASE x.t = "null"   -> FALSE
      [] x.t = "true"   -> TRUE
      [] x.t = "false"  -> FALSE
      [] x.t = "number" -> x.v # 0
      [] x.t = "string" -> Len(x.v) > 0
      [] x.t = "array"  -> Len(x.v) > 0
      [] x.t = "object" -> Len(x.v) > 0

\* x takes part in integer arithmetic: an int or a bool (True is 1, False
\* is 0); anything else raises TypeError under + and -.
IsInt(x) == x.t \in {"number", "true", "false"}

IntOf(x) ==
    CASE x.t = "number" -> x.v
      [] x.t = "true"   -> 1
      [] x.t = "false"  -> 0

\* DequeAppend on a deque that throws the new entry away when it is full.
DequeAppendDropNew(window, x) ==
    IF Len(window) >= maxlen THEN window ELSE Append(window, x)

\* DequeAppend on a deque with no maxlen.
DequeAppendUnbounded(window, x) == Append(window, x)

\* deque.append on a deque of maxlen 10: the oldest entry leaves when the
\* deque is full.
DequeAppend(window, x) ==
    IF Len(window) >= maxlen
    THEN SubSeq(window, Len(window) - maxlen + 2, Len(window)) \o <<x>>
    ELSE Append(window, x)

\* deque(iterable, maxlen=10): the last 10 items of the iterable.
DequeOf(items) ==
    IF Len(items) > maxlen
    THEN SubSeq(items, Len(items) - maxlen + 1, Len(items))
    ELSE items

\* sum(window) raises TypeError unless every entry is an int or a bool.
SumRaises(window) == \E i \in 1..Len(window) : ~IsInt(window[i])

\* Sum, counting the entries that are not True.
SumInverted(window) ==
    Cardinality({i \in 1..Len(window) : window[i] # JsonBool(TRUE)})

\* sum(window), where it does not raise: for a window of booleans the
\* number of True entries.
RECURSIVE Sum(_)
Sum(window) ==
    IF window = <<>> THEN 0
    ELSE IntOf(Head(window)) + Sum(Tail(window))

\* all(window)
All(window) == \A i \in 1..Len(window) : Truthy(window[i])

\* Order(symbol, price, quantity)
Order(symbol, price, quantity) ==
    [symbol |-> symbol, price |-> price, quantity |-> quantity]

\* ------------------------------------------------------------------------
\* Trader.market_making_strategy, lines 60-142.

\* Cross without the price test: every level is taken while capacity is
\* left.
RECURSIVE CrossAnyPrice(_, _, _, _, _, _)
CrossAnyPrice(symbol, levels, i, capacity, limit_price, side) ==
    IF i > Len(levels) THEN [orders |-> <<>>, left |-> capacity]
    ELSE LET price    == levels[i][1]
             volume   == levels[i][2]
             ok       == capacity > 0
             quantity == IF side = 1 THEN Min(capacity, -volume)
                                     ELSE Min(capacity, volume)
             rest     == CrossAnyPrice(symbol, levels, i + 1,
                               IF ok THEN capacity - quantity ELSE capacity,
                               limit_price, side)
         IN  IF ok
             THEN [orders |-> <<[symbol |-> symbol, price |-> price,
                                 quantity |-> side * quantity]>>
                                  \o rest.orders,
                   left   |-> rest.left]
             ELSE rest

\* Lines 97-101 (and 121-125 with the signs turned): walk the levels in
\* order and take min(capacity, size) at each acceptable price while
\* capacity is left.  side = 1 crosses sell levels (buy orders), side = -1
\* crosses buy levels (sell orders).
RECURSIVE Cross(_, _, _, _, _, _)
Cross(symbol, levels, i, capacity, limit_price, side) ==
    IF i > Len(levels) THEN [orders |-> <<>>, left |-> capacity]
    ELSE LET price    == levels[i][1]
             volume   == levels[i][2]
             ok       == /\ capacity > 0
                         /\ IF side = 1 THEN price <= limit_price
                                        ELSE price >= limit_price
             quantity == IF side = 1 THEN Min(capacity, -volume)
                                     ELSE Min(capacity, volume)
             rest     == Cross(symbol, levels, i + 1,
                               IF ok THEN capacity - quantity ELSE capacity,
                               limit_price, side)
         IN  IF ok
             THEN [orders |-> <<Order(symbol, price, side * quantity)>>
                                  \o rest.orders,
                   left   |-> rest.left]
             ELSE rest

\* Liquidate without its "to_buy -= quantity".
LiquidateNoDecrement(symbol, capacity, flag, price, side) ==
    IF capacity > 0 /\ flag
    THEN [orders |-> <<[symbol |-> symbol, price |-> price,
                        quantity |-> side * (capacity \div 2)]>>,
          left   |-> capacity]
    ELSE [orders |-> <<>>, left |-> capacity]

\* Liquidate emitting the whole capacity instead of half of it.
LiquidateAll(symbol, capacity, flag, price, side) ==
    IF capacity > 0 /\ flag
    THEN [orders |-> <<[symbol |-> symbol, price |-> price,
                        quantity |-> side * capacity]>>,
          left   |-> 0]
    ELSE [orders |-> <<>>, left |-> capacity]

\* Lines 104-107 / 109-112 (127-130 / 132-135): a liquidation step emits
\* capacity // 2 at the given price when capacity is left and the flag is
\* set.
Liquidate(symbol, capacity, flag, price, side) ==
    IF capacity > 0 /\ flag
    THEN [orders |-> <<Order(symbol, price, side * (capacity \div 2))>>,
          left   |-> capacity - (capacity \div 2)]
    ELSE [orders |-> <<>>, left |-> capacity]

\* Lines 115-118 (137-140): what is left rests in one order.
Rest(symbol, capacity, price, side) ==
    IF capacity > 0
    THEN <<Order(symbol, price, side * capacity)>>
    ELSE <<>>


\* state.position.get(symbol, 0)
PositionOf(state, symbol) ==
    IF symbol \in DOMAIN state.position THEN state.position[symbol] ELSE 0

\* Trader.market_making_strategy(self, symbol, state), lines 60-142.
\* [self, raised, call]: the Trader after the call, the exception that
\* left it ("none" when it returned) and, when it returned, the orders and
\* the locals of the call in the order the code computes them.
market_making_strategy(self, symbol, state) ==
    LET order_depth == DictGet(state.order_depths, symbol)
        buy_orders  == SortedItems(order_depth.buy_orders,
                                   DOMAIN order_depth.buy_orders, TRUE)
        sell_orders == SortedItems(order_depth.sell_orders,
                                   DOMAIN order_depth.sell_orders, FALSE)
        popular_buy_price  == MaxByVolume(buy_orders)[1]
        popular_sell_price == MinByVolume(sell_orders)[1]
        true_value == RoundHalf(popular_buy_price + popular_sell_price)
        position   == PositionOf(state, symbol)
    IN  \* line 68: self.position_limits[symbol] on a str or a list
        IF self.position_limits.t # "object"
        THEN [self |-> self, raised |-> "TypeError"]
        \* line 82: position_limit - position
        ELSE IF ~IsInt(DictGet(self.position_limits.v, symbol))
        THEN [self |-> self, raised |-> "TypeError"]
        ELSE
        LET position_limit == IntOf(DictGet(self.position_limits.v, symbol))
            window0 == DictGet(self.windows, symbol)
            to_buy  == position_limit - position
            to_sell == position_limit + position
            window  == DequeAppend(window0,
                                   JsonBool(Abs(position) = position_limit))
            pushed  == [self EXCEPT !.windows = DictSet(@, symbol, window)]
        IN  \* line 89: sum(window), evaluated when len(window) == 10
            IF Len(window) = maxlen /\ SumRaises(window)
            THEN [self |-> pushed, raised |-> "TypeError"]
            ELSE
            LET soft_liquidate == /\ Len(window) = maxlen
                                  /\ Sum(window) >= soft_threshold
                                  /\ Truthy(window[Len(window)])
                hard_liquidate == /\ Len(window) = maxlen
                                  /\ All(window)
                max_buy_price  == IF 2 * position > position_limit
                                  THEN true_value - 1 ELSE true_value
                min_sell_price == IF 2 * position < -position_limit
                                  THEN true_value + 1 ELSE true_value
                b1 == Cross(symbol, sell_orders, 1, to_buy, max_buy_price, 1)
                b2 == Liquidate(symbol, b1.left, hard_liquidate,
                                true_value, 1)
                b3 == Liquidate(symbol, b2.left, soft_liquidate,
                                true_value - 2, 1)
                b4 == Rest(symbol, b3.left,
                           Min(max_buy_price, popular_buy_price + 1), 1)
                s1 == Cross(symbol, buy_orders, 1, to_sell,
                            min_sell_price, -1)
                s2 == Liquidate(symbol, s1.left, hard_liquidate,
                                true_value, -1)
                s3 == Liquidate(symbol, s2.left, soft_liquidate,
                                true_value + 2, -1)
                s4 == Rest(symbol, s3.left,
                           Max(min_sell_price, popular_sell_price - 1), -1)
            IN  [self   |-> pushed,
                 raised |-> "none",
                 call   |->
                   [orders         |-> b1.orders \o b2.orders \o b3.orders
                                       \o b4 \o s1.orders \o s2.orders
                                       \o s3.orders \o s4,
                    position_limit |-> position_limit,
                    position       |-> position,
                    entry_window   |-> window0,
                    window         |-> window,
                    true_value     |-> true_value,
                    to_buy         |-> to_buy,
                    to_sell        |-> to_sell,
                    soft_liquidate |-> soft_liquidate,
                    hard_liquidate |-> hard_liquidate,
                    max_buy_price  |-> max_buy_price,
                    min_sell_price |-> min_sell_price,
                    buy_left       |-> b1.left,
                    sell_left      |-> s1.left]]

\* ------------------------------------------------------------------------
\* The traderData string.  The empty string is [kind |-> "empty"], a text
\* json.loads rejects is [kind |-> "garbage"], and a JSON text is
\* [kind |-> "json", doc |-> x] with x the value json.loads returns for it.

EmptyString == [kind |-> "empty"]

Garbage == [kind |-> "garbage"]

JsonText(x) == [kind |-> "json", doc |-> x]

\* What run leaves in place of its return value when it raises.
NoReturn == [kind |-> "none"]

\* Line 54: {symbol: list(window) for symbol, window in
\* self.windows.items()}
ListsOfWindows(windows) ==
    JObject([i \in 1..Len(windows) |->
               <<windows[i][1], JArray(windows[i][2])>>])

\* json_dumps writing the position limits alone.
json_dumps_limits_only(self) ==
    JsonText(JObject(<< <<"position_limits", self.position_limits>> >>))

\* Lines 53-58: json.dumps({"windows": {symbol: list(window) ...},
\*                         "position_limits": self.position_limits})
json_dumps(self) ==
    JsonText(JObject(<< <<"windows", ListsOfWindows(self.windows)>>,
                        <<"position_limits", self.position_limits>> >>))

RECURSIVE Reverse(_)
Reverse(items) ==
    IF items = <<>> THEN <<>>
    ELSE Append(Reverse(Tail(items)), Head(items))

\* WindowOfJson reading the items newest first.
WindowOfJsonReversed(window_data) == DequeOf(Reverse(Iter(window_data)))

\* Line 27: deque(window_data, maxlen=10), for an iterable window_data.
WindowOfJson(window_data) == DequeOf(Iter(window_data))

\* Lines 26-27, from the i-th item of trader_data["windows"].items() on:
\* the windows are assigned one by one, and those assigned stay when a
\* later deque(window_data) raises.  [windows, raised].
RECURSIVE RestoreWindows(_, _, _)
RestoreWindows(windows, items, i) ==
    IF i > Len(items) THEN [windows |-> windows, raised |-> "none"]
    ELSE IF ~Iterable(items[i][2])
    THEN [windows |-> windows, raised |-> "TypeError"]
    ELSE RestoreWindows(
             DictSet(windows, items[i][1], WindowOfJson(items[i][2])),
             items, i + 1)

\* Lines 24-27.  [windows, raised].
restore_windows(self, trader_data) ==
    IF ~In("windows", trader_data)
    THEN [windows |-> self.windows, raised |-> "none"]
    \* trader_data["windows"] on a str or a list
    ELSE IF trader_data.t # "object"
    THEN [windows |-> self.windows, raised |-> "TypeError"]
    \* .items() on a value that is no dict
    ELSE IF DictGet(trader_data.v, "windows").t # "object"
    THEN [windows |-> self.windows, raised |-> "AttributeError"]
    ELSE RestoreWindows(self.windows,
                        DictGet(trader_data.v, "windows").v, 1)

\* Lines 28-29, on the Trader with the windows w.windows that lines 24-27
\* left, unless they raised.  [self, raised].
restore_position_limits(self, trader_data, w) ==
    IF w.raised # "none"
    THEN [self |-> [self EXCEPT !.windows = w.windows], raised |-> w.raised]
    ELSE IF ~In("position_limits", trader_data)
    THEN [self |-> [self EXCEPT !.windows = w.windows], raised |-> "none"]
    \* trader_data["position_limits"] on a str or a list
    ELSE IF trader_data.t # "object"
    THEN [self   |-> [self EXCEPT !.windows = w.windows],
          raised |-> "TypeError"]
    ELSE [self   |-> [position_limits |->
                        DictGet(trader_data.v, "position_limits"),
                      windows         |-> w.windows],
          raised |-> "none"]

\* Lines 21-31: the restore at the head of run.  Only json.JSONDecodeError
\* is caught: any other exception leaves run, with the Trader as the
\* statements before it left it.  [self, raised].
restore(self, traderData) ==
    IF traderData.kind = "empty" THEN [self |-> self, raised |-> "none"]
    ELSE IF traderData.kind = "garbage"
    THEN [self |-> self, raised |-> "none"]
    ELSE IF InRaises(traderData.doc)
    THEN [self |-> self, raised |-> "TypeError"]
    ELSE restore_position_limits(self, traderData.doc,
                                 restore_windows(self, traderData.doc))

\* Trader.__init__, lines 7-13.
NewTrader == [position_limits |-> JObject(<<>>), windows |-> <<>>]

\* Line 36: both sides of the book hold a level.
TwoSided(order_depth) ==
    /\ DOMAIN order_depth.buy_orders # {}
    /\ DOMAIN order_depth.sell_orders # {}

\* Lines 42-43: a product with no window gets an empty one.
EnsureWindow(self, product) ==
    IF DictHas(self.windows, product) THEN self
    ELSE [self EXCEPT !.windows = Append(@, <<product, <<>>>>)]

\* Lines 38-43: a product with no limit gets the default one, a product
\* with no window gets an empty one.  self.position_limits is whatever the
\* restore left: the membership test raises on None, a bool or an int, the
\* item assignment on a str or a list.  [self, raised].
Ensure(self, product) ==
    IF InRaises(self.position_limits)
    THEN [self |-> self, raised |-> "TypeError"]
    ELSE IF In(product, self.position_limits)
    THEN [self |-> EnsureWindow(self, product), raised |-> "none"]
    ELSE IF self.position_limits.t # "object"
    THEN [self |-> self, raised |-> "TypeError"]
    ELSE [self   |-> EnsureWindow(
                       [self EXCEPT !.position_limits.v =
                          Append(@, <<product,
                                      JNumber(default_position_limit)>>)],
                       product),
          raised |-> "none"]

\* Skip giving the product an empty window, as lines 42-43 do for a
\* product that is quoted.
SkipCreatingWindow(self, product) == EnsureWindow(self, product)

\* Lines 48-50: a product whose book lacks a side is left alone.
Skip(self, product) == self

\* Lines 34-50, from the i-th product of state.order_depths on.  The
\* products are taken in the order of the dict; an exception ends the loop
\* with the Trader as the statements before it left it.
\* [self, raised, result, calls].
RECURSIVE Loop(_, _, _, _, _)

\* Line 47 and the rest of the loop, c what market_making_strategy gave
\* for the i-th product.
LoopAfterCall(c, state, i, result, calls) ==
    IF c.raised # "none"
    THEN [self |-> c.self, raised |-> c.raised,
          result |-> result, calls |-> calls]
    ELSE Loop(c.self, state, i + 1,
              result @@ (state.order_depths[i][1] :> c.call.orders),
              calls @@ (state.order_depths[i][1] :> c.call))

\* Line 46 and the rest of the loop, e what lines 38-43 gave for the i-th
\* product.
LoopAfterEnsure(e, state, i, result, calls) ==
    IF e.raised # "none"
    THEN [self |-> e.self, raised |-> e.raised,
          result |-> result, calls |-> calls]
    ELSE LoopAfterCall(
             market_making_strategy(e.self, state.order_depths[i][1], state),
             state, i, result, calls)

Loop(self, state, i, result, calls) ==
    IF i > Len(state.order_depths)
    THEN [self |-> self, raised |-> "none",
          result |-> result, calls |-> calls]
    ELSE IF TwoSided(state.order_depths[i][2])
    THEN LoopAfterEnsure(Ensure(self, state.order_depths[i][1]),
                         state, i, result, calls)
    ELSE Loop(Skip(self, state.order_depths[i][1]), state, i + 1,
              result @@ (state.order_depths[i][1] :> <<>>), calls)

\* Lines 52-58, q what the loop gave.  When run raises nothing is
\* returned: result is empty and traderData is NoReturn.
RunAfterLoop(q) ==
    IF q.raised # "none"
    THEN [self |-> q.self, raised |-> q.raised, result |-> <<>>,
          traderData |-> NoReturn, calls |-> q.calls]
    ELSE [self |-> q.self, raised |-> "none", result |-> q.result,
          traderData |-> json_dumps(q.self), calls |-> q.calls]

\* Lines 33-58, r what the restore gave.
RunAfterRestore(r, state) ==
    IF r.raised # "none"
    THEN [self |-> r.self, raised |-> r.raised, result |-> <<>>,
          traderData |-> NoReturn, calls |-> <<>>]
    ELSE RunAfterLoop(Loop(r.self, state, 1, <<>>, <<>>))

\* Trader.run, lines 15-58.  [self, raised, result, traderData, calls]:
\* the Trader after the call, the exception that left it ("none" when it
\* returned), the orders per product, the string returned and the locals
\* of every market_making_strategy call that returned.
run(self, state) == RunAfterRestore(restore(self, state.traderData), state)

\* ------------------------------------------------------------------------
\* State.

VARIABLES
    trader,      \* the Trader instance: [position_limits, windows],
                 \* position_limits a Python value and windows the dict
                 \* of the deques
    state,       \* the TradingState of the last call
    result,      \* the orders per product the last run returned
    traderData,  \* the string the last run returned
    calls,       \* the locals of the market_making_strategy calls made
    raised,      \* the exception that left the last run, "none" if none
    fresh,       \* [result, traderData] of the same cycles, each run on a
                 \* new Trader() fed the string of the one before
    observed,    \* per product, the at-limit flags of the cycles in which
                 \* it was quoted (the last 10 of them), as the caller saw
                 \* them
    pinned       \* per product, for how many cycles in a row (quoted or
                 \* not, up to 10) its position has been at +/- its limit

vars == <<trader, state, result, traderData, calls, raised, fresh,
          observed, pinned>>

Products == {"A", "B"}

\* A run has been made: it returned a string or it raised.
Ran == traderData.kind = "json" \/ raised # "none"

NoState == [order_depths |-> <<>>, position |-> <<>>,
            traderData |-> EmptyString]

\* self.position_limits[p] and self.windows[p] of a Trader whose limits
\* are a dict of ints.
PositionLimit(self, p) == IntOf(DictGet(self.position_limits.v, p))

HasWindow(self, p) == DictHas(self.windows, p)

Window(self, p) == DictGet(self.windows, p)

\* ------------------------------------------------------------------------
\* Single calls of market_making_strategy on product "A": the limit, the
\* position, the window and the book are drawn from bounded sets.

MinPrice == 1
MaxPrice == 3
MaxVolume == 2
MaxLimit == 3

QPrices == MinPrice..MaxPrice

\* The dicts of one side of a book with one or two price levels, every
\* volume per level.
Sides(volumes) ==
    UNION {[S -> volumes] :
             S \in {{p, q} : p \in QPrices, q \in QPrices}}

BuySides == Sides(1..MaxVolume)

\* Sell volumes are negative.
SellSides == Sides({-v : v \in 1..MaxVolume})

QLimits == 0..MaxLimit

QPositions(limit) == (-limit - 1)..(limit + 1)

\* A window of n booleans: the first k are x, the others are not x.
Pattern(n, k, x) == [i \in 1..n |-> JsonBool(IF i <= k THEN x ELSE ~x)]

QWindows ==
    {Pattern(n, k, x) : n \in {0, maxlen - 1, maxlen},
                        k \in {0, 1, soft_threshold, soft_threshold + 1},
                        x \in BOOLEAN}

QuoteInit ==
    /\ \E limit \in QLimits, w \in QWindows :
          trader = [position_limits |->
                      JObject(<< <<"A", JNumber(limit)>> >>),
                    windows         |-> << <<"A", w>> >>]
    /\ \E b \in BuySides, s \in SellSides,
          position \in QPositions(PositionLimit(trader, "A")) :
          state = [order_depths |->
                     << <<"A", [buy_orders |-> b, sell_orders |-> s]>> >>,
                   position   |-> [p \in {"A"} |-> position],
                   traderData |-> EmptyString]
    /\ result = <<>>
    /\ traderData = EmptyString
    /\ calls = <<>>
    /\ raised = "none"
    /\ fresh = [result |-> <<>>, traderData |-> EmptyString]
    /\ observed = [p \in Products |-> <<>>]
    /\ pinned = [p \in Products |-> 0]

\* orders = self.market_making_strategy("A", state)
Quote ==
    /\ calls = <<>>
    /\ \E c \in {market_making_strategy(trader, "A", state)} :
          /\ calls' = [p \in {"A"} |-> c.call]
          /\ result' = [p \in {"A"} |-> c.call.orders]
          /\ trader' = c.self
          /\ raised' = c.raised
    /\ UNCHANGED <<state, traderData, fresh, observed, pinned>>

QuoteSpec == QuoteInit /\ [][Quote]_vars

\* The call of QuoteSpec has been made.
Called == "A" \in DOMAIN calls

\* limit - position and limit + position at entry.
RoomToBuy == PositionLimit(trader, "A") - PositionOf(state, "A")

RoomToSell == PositionLimit(trader, "A") + PositionOf(state, "A")

RECURSIVE SumBought(_)
SumBought(orders) ==
    IF orders = <<>> THEN 0
    ELSE (IF Head(orders).quantity > 0 THEN Head(orders).quantity ELSE 0)
         + SumBought(Tail(orders))

RECURSIVE SumSold(_)
SumSold(orders) ==
    IF orders = <<>> THEN 0
    ELSE (IF Head(orders).quantity < 0 THEN -Head(orders).quantity ELSE 0)
         + SumSold(Tail(orders))

\* C1 as stated.  Capacity conservation: the quantities bought in one call
\* sum to at most limit - position, the quantities sold to at most
\* limit + position.
CapacityWithinRoom ==
    Called =>
        /\ SumBought(calls["A"].orders) <= RoomToBuy
        /\ SumSold(calls["A"].orders) <= RoomToSell

\* C1, amended.  The quantities bought in one call sum to at most
\* limit - position when that is positive and to nothing otherwise, and
\* the same for the quantities sold and limit + position.
CapacityWithinPositiveRoom ==
    Called =>
        /\ SumBought(calls["A"].orders) <= Max(RoomToBuy, 0)
        /\ SumSold(calls["A"].orders) <= Max(RoomToSell, 0)

\* A call under hard liquidation that crossed a level, liquidated and
\* rested, and used the whole room to sell.
CapacityWitness ==
    /\ Called
    /\ calls["A"].hard_liquidate
    /\ Len(calls["A"].orders) >= 4
    /\ RoomToSell > 0
    /\ SumSold(calls["A"].orders) = RoomToSell

AllTrue(w) == \A i \in 1..Len(w) : w[i] = JsonBool(TRUE)

HasOrder(orders, price, quantity) ==
    \E i \in 1..Len(orders) :
        orders[i].price = price /\ orders[i].quantity = quantity

SellsAboveFairValue ==
    \A price \in DOMAIN DictGet(state.order_depths, "A").sell_orders :
        price > calls["A"].true_value

\* C8 as stated.  Hard-liquidation emission: a call entered with a window
\* of 10 True entries and every sell level above the fair value emits a
\* buy order of floor(c / 2) at the fair value, c the capacity left after
\* crossing; and under hard_liquidate with selling capacity left, a sell
\* order of floor(c / 2) at the fair value.
HardEmissionOnEntryWindow ==
    Called =>
        LET c == calls["A"]
        IN  /\ ( /\ Len(c.entry_window) = maxlen
                 /\ AllTrue(c.entry_window)
                 /\ SellsAboveFairValue )
               => HasOrder(c.orders, c.true_value, c.buy_left \div 2)
            /\ (c.hard_liquidate /\ c.sell_left > 0)
               => HasOrder(c.orders, c.true_value, -(c.sell_left \div 2))

\* C8, amended.  Under hard_liquidate (the window holds 10 True entries
\* after this call's push) with buying capacity c left after crossing, a
\* buy order of floor(c / 2) at the fair value is emitted; and with
\* selling capacity c left, a sell order of floor(c / 2) at the fair value.
HardEmission ==
    Called =>
        LET c == calls["A"]
        IN  /\ (c.hard_liquidate /\ c.buy_left > 0)
               => HasOrder(c.orders, c.true_value, c.buy_left \div 2)
            /\ (c.hard_liquidate /\ c.sell_left > 0)
               => HasOrder(c.orders, c.true_value, -(c.sell_left \div 2))

\* A call entered with 10 True entries, at -limit, every sell level above
\* the fair value: the hard-liquidation buy is emitted.
HardEmissionWitness ==
    /\ Called
    /\ Len(calls["A"].entry_window) = maxlen
    /\ AllTrue(calls["A"].entry_window)
    /\ calls["A"].hard_liquidate
    /\ SellsAboveFairValue
    /\ calls["A"].buy_left >= 4
    /\ HasOrder(calls["A"].orders, calls["A"].true_value,
                calls["A"].buy_left \div 2)

\* The skew-adjusted bounds, from the position and the limit at entry.
SkewedMaxBuy ==
    IF 2 * PositionOf(state, "A") > PositionLimit(trader, "A")
    THEN calls["A"].true_value - 1 ELSE calls["A"].true_value

SkewedMinSell ==
    IF 2 * PositionOf(state, "A") < -PositionLimit(trader, "A")
    THEN calls["A"].true_value + 1 ELSE calls["A"].true_value

\* C9.  Price ceiling and floor: with a limit >= 0, every buy order of a
\* call is priced at or below the skew-adjusted max buy price (so at or
\* below the fair value) and every sell order at or above the
\* skew-adjusted min sell price (so at or above the fair value).
PriceCeilingAndFloor ==
    (Called /\ PositionLimit(trader, "A") >= 0) =>
        \A i \in 1..Len(calls["A"].orders) :
            LET o == calls["A"].orders[i]
            IN  /\ o.quantity > 0 =>
                     /\ o.price <= SkewedMaxBuy
                     /\ o.price <= calls["A"].true_value
                /\ o.quantity < 0 =>
                     /\ o.price >= SkewedMinSell
                     /\ o.price >= calls["A"].true_value

\* A call with the position above half the limit and below it: the
\* ceiling is the fair value - 1, a sell level stands at the fair value
\* and is not taken, and the buy order emitted is priced at the lowered
\* ceiling.
PriceWitness ==
    /\ Called
    /\ PositionLimit(trader, "A") >= 0
    /\ 2 * PositionOf(state, "A") > PositionLimit(trader, "A")
    /\ calls["A"].to_buy > 0
    /\ SkewedMaxBuy = calls["A"].true_value - 1
    /\ calls["A"].true_value
          \in DOMAIN DictGet(state.order_depths, "A").sell_orders
    /\ \E i \in 1..Len(calls["A"].orders) :
          /\ calls["A"].orders[i].quantity > 0
          /\ calls["A"].orders[i].price = SkewedMaxBuy
    /\ \A i \in 1..Len(calls["A"].orders) :
          calls["A"].orders[i].quantity > 0
             => calls["A"].orders[i].price < calls["A"].true_value

\* C10.  Hard implies soft: whenever hard_liquidate holds soft_liquidate
\* holds, and on a side where the hard-liquidation step ran and left
\* capacity the soft-liquidation step ran too.
HardImpliesSoft ==
    Called =>
        LET c == calls["A"]
            buy_after  == c.buy_left - (c.buy_left \div 2)
            sell_after == c.sell_left - (c.sell_left \div 2)
        IN  /\ c.hard_liquidate => c.soft_liquidate
            /\ (c.hard_liquidate /\ c.buy_left > 0 /\ buy_after > 0)
               => HasOrder(c.orders, c.true_value - 2, buy_after \div 2)
            /\ (c.hard_liquidate /\ c.sell_left > 0 /\ sell_after > 0)
               => HasOrder(c.orders, c.true_value + 2,
                           -(sell_after \div 2))

\* A call under hard liquidation whose sell side ran both steps.
HardImpliesSoftWitness ==
    /\ Called
    /\ calls["A"].hard_liquidate
    /\ calls["A"].soft_liquidate
    /\ calls["A"].sell_left >= 4
    /\ HasOrder(calls["A"].orders, calls["A"].true_value + 2,
                -((calls["A"].sell_left - (calls["A"].sell_left \div 2))
                  \div 2))

\* ------------------------------------------------------------------------
\* Cycles of run on one long-lived Trader, each fed the string the cycle
\* before returned (the first the empty string).

\* The book of the documentation's example, a book that crosses the fair
\* value on both sides, and a book with no sell level.
Quiet ==
    [buy_orders  |-> (10 :> 5) @@ (9 :> 3),
     sell_orders |-> (12 :> -4) @@ (13 :> -2)]

Crossed ==
    [buy_orders  |-> (10 :> 5) @@ (12 :> 1),
     sell_orders |-> (12 :> -4) @@ (11 :> -1)]

NoSell ==
    [buy_orders |-> (10 :> 5) @@ (9 :> 3), sell_orders |-> <<>>]

\* Product B is quoted in at most MaxCyclesB cycles.
MaxCyclesB == 2

BQuotable ==
    IF HasWindow(trader, "B")
    THEN Len(Window(trader, "B")) < MaxCyclesB
    ELSE TRUE

\* Within the cycles product A's window remembers, its position moves onto
\* or off the limit at most MaxChanges times.
MaxChanges == 2

Changes(w) == Cardinality({i \in 1..(Len(w) - 1) : w[i] # w[i + 1]})

AQuotable(position) ==
    IF HasWindow(trader, "A") /\ In("A", trader.position_limits)
    THEN LET w == Window(trader, "A")
             x == JsonBool(Abs(position) = PositionLimit(trader, "A"))
         IN  IF w = <<>> THEN TRUE
             ELSE IF w[Len(w)] = x THEN TRUE
             ELSE Changes(w) < MaxChanges
    ELSE TRUE

\* What the caller passes for product A and for product B in one cycle.
InputsA ==
    {[order_depth |-> Quiet,   position |-> default_position_limit],
     [order_depth |-> Quiet,   position |-> 0],
     [order_depth |-> Crossed, position |-> -default_position_limit],
     [order_depth |-> NoSell,  position |-> 0]}

InputsAB ==
    {[order_depth |-> Quiet,   position |-> default_position_limit],
     [order_depth |-> NoSell,  position |-> 0]}

InputsB ==
    {[order_depth |-> Quiet,  position |-> 0],
     [order_depth |-> NoSell, position |-> 0]}

\* Line 68 after lines 38-39: the limit a cycle reads for a product, the
\* default one where the Trader holds none.  [raised, position_limit]: the
\* exception lines 38-39 and 68 raise ("none" if none) and, when they
\* raise none, the value read.
LimitAfterEnsure(e, p) ==
    IF e.raised # "none" THEN [raised |-> e.raised]
    ELSE IF e.self.position_limits.t # "object"
    THEN [raised |-> "TypeError"]
    ELSE [raised         |-> "none",
          position_limit |-> DictGet(e.self.position_limits.v, p)]

LimitOf(self, p) == LimitAfterEnsure(Ensure(self, p), p)

\* Line 86: abs(position) == position_limit, for the limit l that LimitOf
\* gave; a position is at no limit when none can be read.
AtLimit(l, position) ==
    /\ l.raised = "none"
    /\ IsInt(l.position_limit)
    /\ Abs(position) = IntOf(l.position_limit)

LastOf(items) ==
    IF Len(items) > maxlen
    THEN SubSeq(items, Len(items) - maxlen + 1, Len(items))
    ELSE items

Init ==
    /\ trader = NewTrader
    /\ state = NoState
    /\ result = <<>>
    /\ traderData = EmptyString
    /\ calls = <<>>
    /\ raised = "none"
    /\ fresh = [result |-> <<>>, traderData |-> EmptyString]
    /\ observed = [p \in Products |-> <<>>]
    /\ pinned = [p \in Products |-> 0]

\* One cycle: result, conversions, traderData = trader.run(state).
Cycle(st) ==
    \E r \in {run(trader, st)},
       f \in {run(NewTrader, [st EXCEPT !.traderData = fresh.traderData])} :
    LET at_limit(p) == AtLimit(LimitOf(r.self, p), PositionOf(st, p))
    IN  /\ state' = st
        /\ trader' = r.self
        /\ result' = r.result
        /\ traderData' = r.traderData
        /\ calls' = r.calls
        /\ raised' = r.raised
        /\ fresh' = [result |-> f.result, traderData |-> f.traderData]
        /\ observed' = [p \in Products |->
                          IF p \in DOMAIN r.calls
                          THEN LastOf(Append(observed[p],
                                             JsonBool(at_limit(p))))
                          ELSE observed[p]]
        /\ pinned' = [p \in Products |->
                        IF at_limit(p) THEN Min(pinned[p] + 1, maxlen)
                        ELSE 0]

\* A cycle with product A alone in the snapshot.
RunA ==
    \E a \in InputsA :
        /\ TwoSided(a.order_depth) => AQuotable(a.position)
        /\ Cycle([order_depths |-> << <<"A", a.order_depth>> >>,
                  position     |-> [p \in {"A"} |-> a.position],
                  traderData   |-> traderData])

\* A cycle with products A and B in the snapshot.
RunAB ==
    \E a \in InputsAB, b \in InputsB :
        /\ TwoSided(a.order_depth) => AQuotable(a.position)
        /\ TwoSided(b.order_depth) => BQuotable
        /\ Cycle([order_depths |-> << <<"A", a.order_depth>>,
                                      <<"B", b.order_depth>> >>,
                  position     |-> [p \in Products |->
                                      IF p = "A" THEN a.position
                                      ELSE b.position],
                  traderData   |-> traderData])

Next == RunA \/ RunAB

Spec == Init /\ [][Next]_vars

\* The product is in the snapshot of the last cycle with a two-sided book.
QuotedNow(p) ==
    /\ DictHas(state.order_depths, p)
    /\ TwoSided(DictGet(state.order_depths, p))

\* One step of the windows: at most 10 entries; a quoted product's window
\* ends with the flag of this cycle and, if it was full, lost its oldest
\* entry and no other; any other window is as it was.
WindowStep ==
    \A p \in Products :
        HasWindow(trader', p) =>
        LET before == IF HasWindow(trader, p)
                      THEN Window(trader, p) ELSE <<>>
            after  == Window(trader', p)
            flag   == JsonBool(Abs(PositionOf(state', p))
                                 = PositionLimit(trader', p))
        IN  /\ Len(after) <= maxlen
            /\ IF QuotedNow(p)'
               THEN /\ Len(after) > 0
                    /\ after[Len(after)] = flag
                    /\ IF Len(before) = maxlen
                       THEN after = Tail(before) \o <<flag>>
                       ELSE after = Append(before, flag)
               ELSE after = before

\* C2.  Window bound: over the cycles every window holds at most 10
\* entries, the entry of the product's last quoted cycle is its last one,
\* and a push on a full window evicts the oldest entry.
WindowBound == [][WindowStep]_vars

\* Product A was quoted on a full window whose oldest entry differed from
\* the next one.
WindowBoundWitness ==
    /\ "A" \in DOMAIN calls
    /\ Len(calls["A"].entry_window) = maxlen
    /\ calls["A"].entry_window[1] # calls["A"].entry_window[2]
    /\ Len(Window(trader, "A")) = maxlen

\* C4.  Round trip: the string a cycle returns is the serialized Trader,
\* and a new Trader that restores it holds the same symbols in the same
\* order, the same limits and the same windows, oldest entry first.
RoundTrip ==
    /\ Ran => traderData = json_dumps(trader)
    /\ restore(NewTrader, traderData) = [self |-> trader, raised |-> "none"]

\* Both products are stored, B before A, and the window of A is full and
\* mixed.
RoundTripWitness ==
    /\ \A p \in Products :
          HasWindow(trader, p) /\ In(p, trader.position_limits)
    /\ trader.windows[1][1] = "B"
    /\ Len(Window(trader, "A")) = maxlen
    /\ Window(trader, "A")[1] = JsonBool(TRUE)
    /\ Window(trader, "A")[maxlen - 1] = JsonBool(FALSE)
    /\ Window(trader, "A")[maxlen] = JsonBool(TRUE)
    /\ traderData.kind = "json"

\* One step for the products with a one-sided book: no orders, and the
\* limit and the window restore left (or none, if it left none).
SkipStep ==
    \A p \in Products :
        (DictHas(state'.order_depths, p)
           /\ ~TwoSided(DictGet(state'.order_depths, p))) =>
            LET restored == restore(trader, state'.traderData).self
            IN  /\ result'[p] = <<>>
                /\ HasWindow(trader', p) = HasWindow(restored, p)
                /\ In(p, trader'.position_limits)
                      = In(p, restored.position_limits)
                /\ HasWindow(restored, p)
                      => Window(trader', p) = Window(restored, p)
                /\ In(p, restored.position_limits)
                      => PositionLimit(trader', p)
                           = PositionLimit(restored, p)

\* C5.  A product with a one-sided book gets no orders and its limit and
\* window stay as restore left them: none is created, none is changed.
OneSidedSkipped == [][SkipStep]_vars

\* The last cycle skipped A, which had a window, and B, which has none.
OneSidedWitness ==
    /\ \A p \in Products : DictHas(state.order_depths, p)
    /\ ~TwoSided(DictGet(state.order_depths, "A"))
    /\ ~TwoSided(DictGet(state.order_depths, "B"))
    /\ HasWindow(trader, "A")
    /\ Len(Window(trader, "A")) > 0
    /\ ~HasWindow(trader, "B")
    /\ ~In("B", trader.position_limits)
    /\ result["A"] = <<>>
    /\ result["B"] = <<>>

CountTrue(w) == Cardinality({i \in 1..Len(w) : w[i] = JsonBool(TRUE)})

\* soft_liquidate as the last 10 quoted cycles of the product imply it.
SoftOverQuotedCycles(p) ==
    /\ Len(observed[p]) = maxlen
    /\ CountTrue(observed[p]) >= soft_threshold
    /\ observed[p][Len(observed[p])] = JsonBool(TRUE)

\* C6 as stated.  In every cycle that quotes a product, hard_liquidate
\* holds exactly when the position was at +/- limit at the start of this
\* cycle and of the 9 cycles before it, and soft_liquidate exactly when 10
\* cycles are recorded, at least 5 of the last 10 were at +/- limit and
\* this one is.
ShiftRegisterOverCycles ==
    \A p \in DOMAIN calls :
        /\ calls[p].hard_liquidate = (pinned[p] >= maxlen)
        /\ calls[p].soft_liquidate = SoftOverQuotedCycles(p)

\* C6, amended.  In every cycle that quotes a product, hard_liquidate
\* holds exactly when the position was at +/- limit at the start of the 10
\* most recent cycles that quoted the product (this one included), and
\* soft_liquidate exactly when 10 such cycles are recorded, at least 5 of
\* the last 10 were at +/- limit and this one is; a cycle that skips the
\* product is not recorded.
ShiftRegister ==
    \A p \in DOMAIN calls :
        /\ calls[p].hard_liquidate
             = (Len(observed[p]) = maxlen /\ AllTrue(observed[p]))
        /\ calls[p].soft_liquidate = SoftOverQuotedCycles(p)

\* A is under hard liquidation although a cycle that skipped it, with the
\* position off the limit, lies among the last 10 cycles.
ShiftRegisterWitness ==
    /\ "A" \in DOMAIN calls
    /\ calls["A"].hard_liquidate
    /\ pinned["A"] < maxlen

\* C7.  Stateless-instance equivalence: cycle by cycle, a new Trader fed
\* the string of the cycle before returns the orders and the string the
\* long-lived Trader returns.
FreshEquivalence ==
    /\ fresh.result = result
    /\ fresh.traderData = traderData

\* Both products were quoted in the last cycle, A under hard liquidation.
FreshEquivalenceWitness ==
    /\ DOMAIN calls = Products
    /\ calls["A"].hard_liquidate
    /\ Len(result["A"]) >= 3
    /\ Len(result["B"]) >= 2
    /\ fresh.result = result
    /\ fresh.traderData = traderData
    /\ traderData.kind = "json"

\* ------------------------------------------------------------------------
\* Cold starts: a new Trader() is handed a traderData string it did not
\* write and runs one cycle.

\* JSON texts that are no snapshot of a Trader.
\*   null, 5, "abc", "my windows", [], ["windows"], ["position_limits"]
NotRecords ==
    {JNull,
     JNumber(5),
     JString("abc"),
     JString("my windows"),
     JArray(<<>>),
     JArray(<<JString("windows")>>),
     JArray(<<JString("position_limits")>>)}

\*   {"windows": 5}, {"windows": []}, {"windows": {"A": 5}},
\*   {"windows": {"A": null}}, {"windows": {"A": "ab"}},
\*   {"windows": {"A": "abcdefghi"}}, {"windows": {"A": {"x": 1}}},
\*   {"windows": {"A": [true], "B": 5}}, {"windows": {"B": 5, "A": [true]}},
\*   {"windows": {"A": [5, 1, 1, 1, 1, 1, 1, 1, 1]}}
MisshapenWindows ==
    {JObject(<< <<"windows", JNumber(5)>> >>),
     JObject(<< <<"windows", JArray(<<>>)>> >>),
     JObject(<< <<"windows", JObject(<< <<"A", JNumber(5)>> >>)>> >>),
     JObject(<< <<"windows", JObject(<< <<"A", JNull>> >>)>> >>),
     JObject(<< <<"windows", JObject(<< <<"A", JString("ab")>> >>)>> >>),
     JObject(<< <<"windows",
                  JObject(<< <<"A", JString("abcdefghi")>> >>)>> >>),
     JObject(<< <<"windows",
                  JObject(<< <<"A", JObject(<< <<"x", JNumber(1)>> >>)>>
                          >>)>> >>),
     JObject(<< <<"windows",
                  JObject(<< <<"A", JArray(<<JsonBool(TRUE)>>)>>,
                             <<"B", JNumber(5)>> >>)>> >>),
     JObject(<< <<"windows",
                  JObject(<< <<"B", JNumber(5)>>,
                             <<"A", JArray(<<JsonBool(TRUE)>>)>> >>)>> >>),
     JObject(<< <<"windows",
                  JObject(<< <<"A", JArray([i \in 1..(maxlen - 1) |->
                                              IF i = 1 THEN JNumber(5)
                                              ELSE JNumber(1)])>> >>)>> >>)}

\*   {"position_limits": 5}, {"position_limits": "AB"},
\*   {"position_limits": ["A"]}, {"position_limits": {"A": "x"}},
\*   {"position_limits": {"A": null}}, {"position_limits": {"A": true}}
MisshapenLimits ==
    {JObject(<< <<"position_limits", JNumber(5)>> >>),
     JObject(<< <<"position_limits", JString("AB")>> >>),
     JObject(<< <<"position_limits", JArray(<<JString("A")>>)>> >>),
     JObject(<< <<"position_limits",
                  JObject(<< <<"A", JString("x")>> >>)>> >>),
     JObject(<< <<"position_limits", JObject(<< <<"A", JNull>> >>)>> >>),
     JObject(<< <<"position_limits",
                  JObject(<< <<"A", JsonBool(TRUE)>> >>)>> >>)}

MalformedTexts ==
    {JsonText(x) : x \in NotRecords \cup MisshapenWindows
                           \cup MisshapenLimits}

\* JSON texts of the shape run writes:
\*   {}, {"position_limits": {"A": 5}},
\*   {"windows": {"A": [true x 9]}, "position_limits": {"A": 20}},
\*   {"windows": {"A": [false, true x 11]}}
WellFormedTexts ==
    {JsonText(JObject(<<>>)),
     JsonText(JObject(<< <<"position_limits",
                           JObject(<< <<"A", JNumber(5)>> >>)>> >>)),
     json_dumps([position_limits |->
                   JObject(<< <<"A", JNumber(default_position_limit)>> >>),
                 windows |-> << <<"A", Pattern(maxlen - 1, 0, FALSE)>> >>]),
     JsonText(JObject(<< <<"windows",
                           JObject(<< <<"A", JArray(
                                       Pattern(maxlen + 2, 1, FALSE))>>
                                   >>)>> >>))}

ColdTexts == {EmptyString, Garbage} \cup MalformedTexts \cup WellFormedTexts

\* A record whose windows member, if any, is a record of arrays of
\* booleans and whose position_limits member, if any, is a record of
\* numbers.
WellShaped(x) ==
    /\ x.t = "object"
    /\ DictHas(x.v, "windows") =>
         LET windows == DictGet(x.v, "windows")
         IN  /\ windows.t = "object"
             /\ \A i \in 1..Len(windows.v) :
                   LET window_data == windows.v[i][2]
                   IN  /\ window_data.t = "array"
                       /\ \A j \in 1..Len(window_data.v) :
                             window_data.v[j].t \in {"true", "false"}
    /\ DictHas(x.v, "position_limits") =>
         LET position_limits == DictGet(x.v, "position_limits")
         IN  /\ position_limits.t = "object"
             /\ \A i \in 1..Len(position_limits.v) :
                   position_limits.v[i][2].t = "number"

\* The empty string, a text that is no JSON, or a JSON text that is not a
\* record or whose windows or position_limits member has the wrong shape.
NoPriorState(text) ==
    \/ text.kind \in {"empty", "garbage"}
    \/ text.kind = "json" /\ ~WellShaped(text.doc)

\* A new Trader and the TradingState it is about to be run on.
ColdInit ==
    /\ trader = NewTrader
    /\ \E text \in ColdTexts, a \in InputsA, b \in InputsB,
          with_b \in BOOLEAN :
          state = [order_depths |->
                     IF with_b
                     THEN << <<"A", a.order_depth>>, <<"B", b.order_depth>> >>
                     ELSE << <<"A", a.order_depth>> >>,
                   position |->
                     [p \in (IF with_b THEN Products ELSE {"A"}) |->
                        IF p = "A" THEN a.position ELSE b.position],
                   traderData |-> text]
    /\ result = <<>>
    /\ traderData = EmptyString
    /\ calls = <<>>
    /\ raised = "none"
    /\ fresh = [result |-> <<>>, traderData |-> EmptyString]
    /\ observed = [p \in Products |-> <<>>]
    /\ pinned = [p \in Products |-> 0]

\* trader = Trader(); trader.run(state)
ColdRun ==
    /\ ~Ran
    /\ \E r \in {run(trader, state)} :
          /\ trader' = r.self
          /\ result' = r.result
          /\ traderData' = r.traderData
          /\ calls' = r.calls
          /\ raised' = r.raised
    /\ UNCHANGED <<state, fresh, observed, pinned>>

ColdSpec == ColdInit /\ [][ColdRun]_vars

\* C3.  Fail-soft restore: a run of a new Trader on an empty, unparsable or
\* malformed traderData does not raise, and leaves the limits and windows
\* that the same run on the empty string leaves.
FailSoftRestore ==
    (Ran /\ NoPriorState(state.traderData)) =>
        /\ raised = "none"
        /\ trader = run(NewTrader,
                        [state EXCEPT !.traderData = EmptyString]).self

====
